---- MODULE Spec2Model ----
(***************************************************************************)
(* Model of stepper_math_linear.cpp: prepare_line, prepare_line_abs,       *)
(* prepare_line_2d and prepare_line_2d_abs.                                *)
(*                                                                         *)
(* Number representation.  The source computes with 32-bit `unsigned long` *)
(* (source comment, lines 90-92), 32-bit `long` and IEEE-754 `double`.     *)
(* The model keeps the widths:                                             *)
(*   - a `long` is an Int in -2^31 .. 2^31-1;                              *)
(*   - an `unsigned long` is a sequence of two 16-bit limbs, least         *)
(*     significant first (value = u[1] + 2^16 * u[2]), so that the wrap    *)
(*     modulo 2^32 is the loss of the third limb;                          *)
(*   - a `double` is computed exactly as binary64 does: 53-bit mantissa,   *)
(*     round to nearest, ties to even, on wider limb sequences.            *)
(***************************************************************************)
EXTENDS Integers, Sequences, FiniteSets

(***************************************************************************)
(* Multi-limb naturals (little-endian sequences of 16-bit limbs).          *)
(***************************************************************************)
Limb == 2^16

RECURSIVE BigZero(_)
BigZero(n) == IF n <= 0 THEN <<>> ELSE <<0>> \o BigZero(n - 1)

\* a natural x < 2^31 as n limbs (n >= 2)
BigFromNat(x, n) == <<x % Limb, x \div Limb>> \o BigZero(n - 2)

\* a with n limbs: zero-extended, or truncated (the value modulo 2^(16n))
BigResize(a, n) ==
    IF n <= Len(a) THEN SubSeq(a, 1, n) ELSE a \o BigZero(n - Len(a))

RECURSIVE BigMulAddFrom(_, _, _, _)
BigMulAddFrom(a, k, c, i) ==
    IF i > Len(a) THEN <<>>
    ELSE LET t == a[i] * k + c
         IN  <<t % Limb>> \o BigMulAddFrom(a, k, t \div Limb, i + 1)

\* a * k + c modulo 2^(16 * Len(a)), for k < 2^14 and c < 2^15
BigMulAdd(a, k, c) == BigMulAddFrom(a, k, c, 1)

RECURSIVE BigDivFrom(_, _, _, _)
BigDivFrom(a, d, r, i) ==
    IF i = 0 THEN <<>>
    ELSE LET t == r * Limb + a[i]
         IN  BigDivFrom(a, d, t % d, i - 1) \o <<t \div d>>

\* floor(a / d) for 0 < d <= 2^15
BigDivSmall(a, d) == BigDivFrom(a, d, 0, Len(a))

RECURSIVE BigLessFrom(_, _, _)
BigLessFrom(a, b, i) ==
    IF i = 0 THEN FALSE
    ELSE IF a[i] # b[i] THEN a[i] < b[i]
    ELSE BigLessFrom(a, b, i - 1)

\* a < b, for a and b of the same length
BigLess(a, b) == BigLessFrom(a, b, Len(a))

RECURSIVE BigAddFrom(_, _, _, _)
BigAddFrom(a, b, c, i) ==
    IF i > Len(a) THEN <<>>
    ELSE LET t == a[i] + b[i] + c
         IN  <<t % Limb>> \o BigAddFrom(a, b, t \div Limb, i + 1)

\* a + b modulo 2^(16 * Len(a))
BigAdd(a, b) == BigAddFrom(a, b, 0, 1)

RECURSIVE BigSubFrom(_, _, _, _)
BigSubFrom(a, b, c, i) ==
    IF i > Len(a) THEN <<>>
    ELSE LET t == a[i] - b[i] - c
         IN  IF t < 0 THEN <<t + Limb>> \o BigSubFrom(a, b, 1, i + 1)
             ELSE <<t>> \o BigSubFrom(a, b, 0, i + 1)

\* a - b modulo 2^(16 * Len(a))
BigSub(a, b) == BigSubFrom(a, b, 0, 1)

RECURSIVE NatBitLen(_)
NatBitLen(x) == IF x = 0 THEN 0 ELSE 1 + NatBitLen(x \div 2)

RECURSIVE BigBitLenFrom(_, _)
BigBitLenFrom(a, i) ==
    IF i = 0 THEN 0
    ELSE IF a[i] # 0 THEN 16 * (i - 1) + NatBitLen(a[i])
    ELSE BigBitLenFrom(a, i - 1)

\* the number of significant bits of a
BigBitLen(a) == BigBitLenFrom(a, Len(a))

\* floor(a / 2^n), same length as a
BigShr(a, n) ==
    LET w == n \div 16
        s == IF w >= Len(a) THEN BigZero(Len(a))
             ELSE SubSeq(a, w + 1, Len(a)) \o BigZero(w)
    IN  BigDivSmall(s, 2^(n % 16))

\* bit p (0 = least significant) of a
BigBit(a, p) ==
    IF p \div 16 + 1 > Len(a) THEN 0
    ELSE (a[p \div 16 + 1] \div 2^(p % 16)) % 2

\* a mod 2^n # 0
BigLowNonzero(a, n) ==
    \/ \E i \in 1..Len(a) : i <= n \div 16 /\ a[i] # 0
    \/ /\ n \div 16 + 1 <= Len(a)
       /\ a[n \div 16 + 1] % 2^(n % 16) # 0

\* the value of a, when it is below 2^31
BigVal(a) == a[1] + Limb * a[2]

(***************************************************************************)
(* `unsigned long` (32 bits) and `long` (32 bits).                         *)
(***************************************************************************)
LONG_MAX == 2147483647
LONG_MIN == -LONG_MAX - 1

U32Zero == BigZero(2)
U32Max == <<Limb - 1, Limb - 1>>

\* the unsigned long with value x, 0 <= x < 2^31
U32(x) == BigFromNat(x, 2)

\* a < b on unsigned long
U32Less(a, b) == a[2] < b[2] \/ (a[2] = b[2] /\ a[1] < b[1])

\* the conversion long -> unsigned long (modulo 2^32): the assignment of a
\* long expression to `unsigned long step_delay`, lines 124, 251, 252
U32FromLong(x) ==
    IF x >= 0 THEN U32(x)
    ELSE LET n == -(x + 1)
         IN  <<(Limb - 1) - (n % Limb), (Limb - 1) - (n \div Limb)>>

\* C's `/` on long operands, divisor m > 0: the quotient truncated toward zero
LongDiv(a, m) ==
    IF a >= 0 THEN a \div m
    ELSE LET n == -(a + 1)
         IN  (0 - (n \div m)) - (IF n % m = m - 1 THEN 1 ELSE 0)

\* steps >= 0 ? steps : -steps
LongAbs(x) == IF x >= 0 THEN x ELSE -x

(***************************************************************************)
(* `double` (IEEE-754 binary64).  A finite non-negative double is          *)
(* [m, e] with value m * 2^e and m <= 2^53, m a 5-limb natural.            *)
(***************************************************************************)
MantBits == 53

\* V * 2^e0 (plus something in (0, 1) * 2^e0 when sticky) rounded to a
\* 53-bit mantissa, to nearest, ties to even
Round53(V, e0, sticky) ==
    LET L == BigBitLen(V)
        k == L - MantBits
    IN  IF k <= 0 THEN [m |-> V, e |-> e0]
        ELSE LET q  == BigShr(V, k)
                 rb == BigBit(V, k - 1)
                 st == sticky \/ BigLowNonzero(V, k - 1)
                 up == rb = 1 /\ (st \/ q[1] % 2 = 1)
             IN  [m |-> IF up THEN BigMulAdd(q, 1, 1) ELSE q, e |-> e0 + k]

\* a - b on unsigned long, for a >= b
U32Sub(a, b) ==
    IF a[1] >= b[1] THEN <<a[1] - b[1], a[2] - b[2]>>
    ELSE <<a[1] - b[1] + Limb, a[2] - b[2] - 1>>

\* a + a on unsigned long, for a < 2^31
U32Twice(a) == <<(2 * a[1]) % Limb, 2 * a[2] + (2 * a[1]) \div Limb>>

\* the quotient bits so far are qh * 2^28 + ql
QLow == 2^28

\* The state of the long division of r by D (r < D): the remainder r, the
\* quotient bits so far (qh * 2^28 + ql), the number nbits of significant
\* bits among them and the number s of bits appended.  It is complete when
\* the quotient has 55 significant bits or the division is exact.
DivDone(st) == st.nbits >= MantBits + 2 \/ st.r = U32Zero

\* one more bit of the binary expansion of r / D
DivStep(D, st) ==
    IF DivDone(st) THEN st
    ELSE LET rest == U32Sub(D, st.r)
             bit  == IF U32Less(st.r, rest) THEN 0 ELSE 1
             t    == 2 * st.ql + bit
         IN  [r     |-> IF bit = 1 THEN U32Sub(st.r, rest) ELSE U32Twice(st.r),
              qh    |-> 2 * st.qh + t \div QLow,
              ql    |-> t % QLow,
              nbits |-> IF st.nbits > 0 \/ bit = 1 THEN st.nbits + 1 ELSE 0,
              s     |-> st.s + 1]

DivStep8(D, st) ==
    DivStep(D, DivStep(D, DivStep(D, DivStep(D,
    DivStep(D, DivStep(D, DivStep(D, DivStep(D, st))))))))

RECURSIVE DivBits(_, _)
DivBits(D, st) == IF DivDone(st) THEN st ELSE DivBits(D, DivStep8(D, st))

\* qh * 2^28 + ql as a 5-limb natural (qh < 2^27)
BigFromHiLo(qh, ql) ==
    <<ql % Limb,
      ql \div Limb + (qh % 16) * 4096,
      (qh \div 16) % Limb,
      qh \div (16 * Limb),
      0>>

\* (double)n / (double)D for a natural n < 2^31 and an unsigned long D > 0:
\* both conversions are exact, the quotient is rounded once
DoubleDiv(n, D) ==
    LET small == D[2] < Limb \div 2
        q0 == IF small THEN n \div BigVal(D) ELSE 0
        r0 == IF small THEN n % BigVal(D) ELSE n
        b  == DivBits(D, [r |-> U32(r0), qh |-> q0 \div QLow, ql |-> q0 % QLow,
                          nbits |-> NatBitLen(q0), s |-> 0])
    IN  Round53(BigFromHiLo(b.qh, b.ql), -b.s, b.r # U32Zero)

\* x * 1000000, rounded once
DoubleTimesMillion(x) ==
    Round53(BigMulAdd(BigMulAdd(x.m, 1000, 0), 1000, 0), x.e, FALSE)

\* the conversion double -> long of a non-negative x: the integer part when
\* it is below 2^31, otherwise out of the range of long
DoubleTrunc(x) ==
    IF x.e >= 0
    THEN IF BigBitLen(x.m) + x.e > 31 THEN [ok |-> FALSE, val |-> 0]
         ELSE [ok |-> TRUE, val |-> BigVal(x.m) * 2^(x.e)]
    ELSE LET v == BigShr(x.m, -x.e)
         IN  IF BigBitLen(v) > 31 THEN [ok |-> FALSE, val |-> 0]
             ELSE [ok |-> TRUE, val |-> BigVal(v)]

\* long dt = ((double)dl / (double)spd) * 1000000;
\* ok = FALSE when the double is infinite, NaN or outside the range of long
TransitTime(dl, spd) ==
    IF spd = U32Zero THEN [ok |-> FALSE, val |-> 0]
    ELSE LET mag == DoubleTrunc(DoubleTimesMillion(DoubleDiv(LongAbs(dl), spd)))
         IN  [ok |-> mag.ok, val |-> IF dl >= 0 THEN mag.val ELSE -mag.val]

\* x * x for a natural x < 2^27, as [hi, lo] with value hi * 2^28 + lo
Square(x) ==
    LET cl == x % 16384
        ch == x \div 16384
        m  == 2 * ch * cl
        X  == cl * cl + (m % 16384) * 16384
    IN  [hi |-> ch * ch + m \div 16384 + X \div QLow, lo |-> X % QLow]

\* a + b on [hi, lo] pairs
WideAdd(a, b) ==
    [hi |-> a.hi + b.hi + (a.lo + b.lo) \div QLow, lo |-> (a.lo + b.lo) % QLow]

\* a < b on [hi, lo] pairs
WideLess(a, b) == a.hi < b.hi \/ (a.hi = b.hi /\ a.lo < b.lo)

\* the largest s + (bits below 2^(b+1)) whose square is at most N
RECURSIVE FloorSqrtFrom(_, _, _)
FloorSqrtFrom(N, s, b) ==
    IF b < 0 THEN s
    ELSE LET cand == s + 2^b
         IN  IF WideLess(N, Square(cand)) THEN FloorSqrtFrom(N, s, b - 1)
             ELSE FloorSqrtFrom(N, cand, b - 1)

\* long dl = sqrt((double)dl1*(double)dl1 + (double)dl2*(double)dl2);
\* For |dl1|, |dl2| < 2^26 the squares and their sum are exact doubles
\* (below 2^53), and the correctly rounded square root has the same integer
\* part as the exact one, so the result is floor(sqrt(dl1^2 + dl2^2)).
PathLength(dl1, dl2) ==
    FloorSqrtFrom(WideAdd(Square(LongAbs(dl1)), Square(LongAbs(dl2))), 0, 26)

(***************************************************************************)
(* The program.                                                            *)
(***************************************************************************)
VARIABLES
    pc,      \* "idle" before any call; "returned" or "trapped" after one
    call,    \* the last call: entry point, axes, relative displacements, speed
    ret,     \* the value the last call returned
    locals,  \* the last call's max_spd, resolved spd, path length and dt
    sched    \* the prepare_steps invocations the last call made, in order

vars == <<pc, call, ret, locals, sched>>

STEPPER_MATH_ERR_TOO_FAST == 1

\* Bounds of the inputs: step counts of the displacements drawn for the
\* one-axis and the two-axis entry points, and for the absolute variants.
MaxSteps == 10
MaxSteps2d == 4
MaxStepsAbs == 1

\* (distance_per_step, pulse_delay) of the axes drawn
AxisParams ==
    {<<1000, 1000>>, <<7500, 1000>>, <<83, 83>>, <<4295, 1>>, <<7500, 1>>, <<1, 10000>>}

\* the axes drawn for the two-axis entry points
AxisParams2d == {<<1000, 1000>>, <<7500, 1000>>, <<83, 83>>, <<4295, 1>>}

\* the stepper structures with parameters in A and current_pos in P
Steppers(A, P) ==
    {[distance_per_step |-> a[1], pulse_delay |-> a[2], current_pos |-> c] :
        a \in A, c \in P}

\* the requested speeds drawn (unsigned long)
Speeds == {U32(v) : v \in {0, 1, 1000, 1000000, 1000001, 7500001}}

\* displacements of up to n steps of sm, whole steps and half-way between
Displacements(sm, n) ==
    {k * sm.distance_per_step + o :
        k \in -n..n, o \in {0, sm.distance_per_step \div 2}}

\* whole-step displacements of up to n steps of sm, and half a step
Displacements2d(sm, n) ==
    {k * sm.distance_per_step : k \in -n..n} \cup {sm.distance_per_step \div 2}

\* unsigned long max_spd = (sm->distance_per_step * 1000 / sm->pulse_delay) * 1000;
\* every operation is on unsigned long: the products wrap modulo 2^32
MaxSpd(sm) ==
    BigMulAdd(BigDivSmall(BigMulAdd(U32(sm.distance_per_step), 1000, 0),
                          sm.pulse_delay), 1000, 0)

\* SpeedCheck with `spd >= max_spd` for `spd > max_spd`
SpeedCheckInclusive(spd, max_spd) ==
    [too_fast |-> spd # U32Zero /\ ~U32Less(spd, max_spd),
     spd      |-> IF spd = U32Zero THEN max_spd ELSE spd]

\* SpeedCheck without the assignment `spd = max_spd`
SpeedCheckNoDefault(spd, max_spd) ==
    [too_fast |-> spd # U32Zero /\ U32Less(max_spd, spd),
     spd      |-> spd]

\* if(spd == 0) spd = max_spd; else if(spd > max_spd) return TOO_FAST;
SpeedCheck(spd, max_spd) ==
    [too_fast |-> spd # U32Zero /\ U32Less(max_spd, spd),
     spd      |-> IF spd = U32Zero THEN max_spd ELSE spd]

\* EffectiveMax with the comparison reversed
EffectiveMaxLarger(max_spd_sm1, max_spd_sm2) ==
    IF U32Less(max_spd_sm2, max_spd_sm1) THEN max_spd_sm1 ELSE max_spd_sm2

\* max_spd_sm1 < max_spd_sm2 ? max_spd_sm1 : max_spd_sm2
EffectiveMax(max_spd_sm1, max_spd_sm2) ==
    IF U32Less(max_spd_sm1, max_spd_sm2) THEN max_spd_sm1 ELSE max_spd_sm2

\* The values `long dt = <double expression>` can take.  The conversion of
\* a double outside the range of long (or infinite, or NaN) is undefined:
\* it saturates on some targets and gives LONG_MIN on others.
DtOutcomes(dl, spd) ==
    LET t == TransitTime(dl, spd)
    IN  IF t.ok THEN {t.val} ELSE {LONG_MAX, LONG_MIN}

\* The outcomes of `step_delay = dt / mod_steps`.  The division of longs
\* truncates toward zero and the quotient is converted to unsigned long.
\* Division by zero is undefined: the processor traps, or the quotient is
\* all zeros or all ones.
StepDelayOutcomes(dt, mod_steps) ==
    IF mod_steps = 0
    THEN {[trap |-> TRUE, val |-> U32Zero],
          [trap |-> FALSE, val |-> U32Zero],
          [trap |-> FALSE, val |-> U32Max]}
    ELSE {[trap |-> FALSE, val |-> U32FromLong(LongDiv(dt, mod_steps))]}

\* prepare_steps(sm, steps, step_delay): the scheduler's entry point, outside
\* this file; the model records the invocation
prepare_steps(sm, steps, step_delay) ==
    [sm |-> sm, steps |-> steps, step_delay |-> step_delay]

TooFast(spd, max_spd) ==
    [pc |-> "returned", ret |-> STEPPER_MATH_ERR_TOO_FAST, sched |-> <<>>,
     locals |-> [max_spd |-> max_spd, spd |-> spd, path |-> 0, dt |-> 0]]

Trapped(spd, max_spd, path, dt) ==
    [pc |-> "trapped", ret |-> 0, sched |-> <<>>,
     locals |-> [max_spd |-> max_spd, spd |-> spd, path |-> path, dt |-> dt]]

Planned(spd, max_spd, path, dt, invocations) ==
    [pc |-> "returned", ret |-> 0, sched |-> invocations,
     locals |-> [max_spd |-> max_spd, spd |-> spd, path |-> path, dt |-> dt]]

\* int prepare_line(stepper *sm, long dl, unsigned long spd): the set of
\* its outcomes
prepare_line(sm, dl, spd) ==
    LET steps     == LongDiv(dl, sm.distance_per_step)
        mod_steps == LongAbs(steps)
        max_spd   == MaxSpd(sm)
        chk       == SpeedCheck(spd, max_spd)
    IN  IF chk.too_fast THEN {TooFast(spd, max_spd)}
        ELSE {IF d.trap THEN Trapped(chk.spd, max_spd, dl, dt)
              ELSE Planned(chk.spd, max_spd, dl, dt,
                           <<prepare_steps(sm, steps, d.val)>>) :
                <<dt, d>> \in UNION {{dt0} \X StepDelayOutcomes(dt0, mod_steps) :
                                        dt0 \in DtOutcomes(dl, chk.spd)}}

\* int prepare_line_2d(stepper *sm1, stepper *sm2, long dl1, long dl2,
\*                     unsigned long spd): the set of its outcomes
prepare_line_2d(sm1, sm2, dl1, dl2, spd) ==
    LET steps_sm1     == LongDiv(dl1, sm1.distance_per_step)
        steps_sm2     == LongDiv(dl2, sm2.distance_per_step)
        mod_steps_sm1 == LongAbs(steps_sm1)
        mod_steps_sm2 == LongAbs(steps_sm2)
        max_spd       == EffectiveMax(MaxSpd(sm1), MaxSpd(sm2))
        chk           == SpeedCheck(spd, max_spd)
        dl            == PathLength(dl1, dl2)
    IN  IF chk.too_fast THEN {TooFast(spd, max_spd)}
        ELSE {IF d[2].trap \/ d[3].trap THEN Trapped(chk.spd, max_spd, dl, d[1])
              ELSE Planned(chk.spd, max_spd, dl, d[1],
                           <<prepare_steps(sm1, steps_sm1, d[2].val),
                             prepare_steps(sm2, steps_sm2, d[3].val)>>) :
                d \in UNION {{dt0} \X StepDelayOutcomes(dt0, mod_steps_sm1)
                                   \X StepDelayOutcomes(dt0, mod_steps_sm2) :
                                dt0 \in DtOutcomes(dl, chk.spd)}}

Init ==
    /\ pc = "idle"
    /\ call = [op |-> "none", sm |-> <<>>, dl |-> <<>>, spd |-> U32Zero]
       /\ ret = 0
       /\ locals = [max_spd |-> U32Zero, spd |-> U32Zero, path |-> 0, dt |-> 0]
       /\ sched = <<>>

\* The entry points keep no state between calls and read none of the
\* variables, so every call is modelled from the state before any call.

\* the state after a call of entry point op with outcome o
Called(op, sms, dls, spd, o) ==
    /\ call' = [op |-> op, sm |-> sms, dl |-> dls, spd |-> spd]
    /\ pc' = o.pc
    /\ ret' = o.ret
    /\ locals' = o.locals
    /\ sched' = o.sched

PrepareLine ==
    /\ pc = "idle"
    /\ \E sm \in Steppers(AxisParams, {0}), spd \in Speeds :
         \E dl \in Displacements(sm, MaxSteps) :
           \E o \in prepare_line(sm, dl, spd) :
               Called("prepare_line", <<sm>>, <<dl>>, spd, o)

\* int prepare_line_abs(stepper *sm, long cvalue, unsigned long spd)
PrepareLineAbs ==
    /\ pc = "idle"
    /\ \E sm \in Steppers(AxisParams, {0, 500}), spd \in Speeds :
         \E cvalue \in Displacements(sm, MaxStepsAbs) :
           LET dl == cvalue - sm.current_pos
           IN  \E o \in prepare_line(sm, dl, spd) :
                   Called("prepare_line_abs", <<sm>>, <<dl>>, spd, o)

PrepareLine2d ==
    /\ pc = "idle"
    /\ \E sm1 \in Steppers(AxisParams2d, {0}), sm2 \in Steppers(AxisParams2d, {0}),
            spd \in Speeds :
         \E dl1 \in Displacements2d(sm1, MaxSteps2d),
            dl2 \in Displacements2d(sm2, MaxSteps2d) :
           \E o \in prepare_line_2d(sm1, sm2, dl1, dl2, spd) :
               Called("prepare_line_2d", <<sm1, sm2>>, <<dl1, dl2>>, spd, o)

\* int prepare_line_2d_abs(stepper *sm1, stepper *sm2, long cvalue1,
\*                         long cvalue2, unsigned long spd)
PrepareLine2dAbs ==
    /\ pc = "idle"
    /\ \E sm1 \in Steppers(AxisParams2d, {0, 500}), sm2 \in Steppers(AxisParams2d, {0}),
            spd \in {U32(0), U32(1000)} :
         \E cvalue1 \in Displacements2d(sm1, MaxStepsAbs),
            cvalue2 \in Displacements2d(sm2, MaxStepsAbs) :
           LET dl1 == cvalue1 - sm1.current_pos
               dl2 == cvalue2 - sm2.current_pos
           IN  \E o \in prepare_line_2d(sm1, sm2, dl1, dl2, spd) :
                   Called("prepare_line_2d_abs", <<sm1, sm2>>, <<dl1, dl2>>, spd, o)

Next ==
    \/ PrepareLine
    \/ PrepareLineAbs
    \/ PrepareLine2d
    \/ PrepareLine2dAbs

Spec == Init /\ [][Next]_vars

(***************************************************************************)
(* Properties.                                                             *)
(***************************************************************************)
Returned(code) == pc = "returned" /\ ret = code
Succeeded == Returned(0)
Rejected == Returned(STEPPER_MATH_ERR_TOO_FAST)

\* spd exceeds max (a requested speed of 0 asks for the maximum)
Exceeds(spd, max) == spd # U32Zero /\ U32Less(max, spd)

\* the smaller of two unsigned longs
Smaller(a, b) == IF U32Less(b, a) THEN b ELSE a

\* the number of whole steps of axis i in the last call's displacement
WholeSteps(i) == LongAbs(call.dl[i]) \div call.sm[i].distance_per_step

\* a * x for a multi-limb a and a natural x < 2^31, modulo 2^(16 * Len(a))
BigMulNat(a, x) ==
    BigAdd(BigMulAdd(a, x % 16384, 0),
           BigMulAdd(BigAdd(BigMulAdd(a, (x \div 16384) % 16384, 0),
                            BigMulAdd(BigMulAdd(a, x \div (16384 * 16384), 0),
                                      16384, 0)),
                     16384, 0))

\* q is the integer part of n * 1000000 / spd, for naturals q, n < 2^31:
\* q * spd <= n * 1000000 < q * spd + spd
IsQuotient(q, n, spd) ==
    LET num  == BigMulAdd(BigMulAdd(BigFromNat(n, 5), 1000, 0), 1000, 0)
        low  == BigMulNat(BigResize(spd, 5), q)
        high == BigAdd(low, BigResize(spd, 5))
    IN  ~BigLess(num, low) /\ BigLess(num, high)

\* dt is dl * 1000000 / spd with the fraction dropped
IsTransitTime(dt, dl, spd) ==
    /\ (dl >= 0) = (dt >= 0) \/ dt = 0
    /\ dt # LONG_MIN
    /\ IsQuotient(LongAbs(dt), LongAbs(dl), spd)

\* C1: a call of prepare_line or prepare_line_2d with a speed above the
\* applicable maximum (the axis's max_spd, or the smaller of the two axes'
\* max_spd) returns TOO_FAST without invoking prepare_steps for any axis,
\* and TOO_FAST is returned in no other case.
C1_TooFastIffAboveMax ==
    call.op \in {"prepare_line", "prepare_line_2d"} =>
        LET max  == IF call.op = "prepare_line" THEN MaxSpd(call.sm[1])
                    ELSE Smaller(MaxSpd(call.sm[1]), MaxSpd(call.sm[2]))
            over == Exceeds(call.spd, max)
        IN  /\ over => Rejected /\ sched = <<>>
            /\ Rejected => over

\* a two-axis call rejected with no invocation of the scheduler
C1_Witness ==
    /\ call.op = "prepare_line_2d"
    /\ Rejected
    /\ sched = <<>>
    /\ Exceeds(call.spd, locals.max_spd)

\* C2: prepare_line called with speed 0 never returns TOO_FAST and uses
\* exactly max_spd = (distance_per_step * 1000 / pulse_delay) * 1000 as the
\* speed (in unsigned long arithmetic; where the products stay below 2^31
\* that is the same number computed on the integers).
C2_ZeroSpeedIsMax ==
    call.op = "prepare_line" /\ call.spd = U32Zero =>
        LET d == call.sm[1].distance_per_step
            p == call.sm[1].pulse_delay
            q == (d * 1000) \div p
        IN  /\ ~Rejected
            /\ locals.spd = locals.max_spd
            /\ locals.spd = MaxSpd(call.sm[1])
            /\ q <= 2147483 => locals.spd = U32(q * 1000)

\* a speed-0 move of the 7500/1000 axis planned at 7500000
C2_Witness ==
    /\ call.op = "prepare_line"
    /\ call.spd = U32Zero
    /\ Succeeded
    /\ Len(sched) = 1
    /\ call.sm[1].distance_per_step = 7500
    /\ call.sm[1].pulse_delay = 1000
    /\ locals.spd = U32(7500000)

\* C3: every call ends in exactly one of two outcomes, success with
\* prepare_steps invoked once per axis or TOO_FAST with no invocation, and
\* none divides by zero (also when a displacement is below one step).
C3_OneOutcomeNoDivisionByZero ==
    pc # "idle" =>
        /\ \/ Succeeded /\ Len(sched) = Len(call.sm)
           \/ Rejected /\ sched = <<>>
        /\ ~Rejected => \A i \in 1..Len(call.sm) : WholeSteps(i) # 0

\* C4: for |dl| of at least one step and an accepted speed,
\* prepare_line(axis, -dl, spd) emits the negated step count and the same
\* step_delay as prepare_line(axis, dl, spd).
C4_NegationMirrors ==
    call.op = "prepare_line" /\ Succeeded /\ WholeSteps(1) >= 1 =>
        \E o \in prepare_line(call.sm[1], -call.dl[1], call.spd) :
            /\ o.pc = "returned" /\ o.ret = 0
            /\ o.sched[1].steps = -sched[1].steps
            /\ o.sched[1].step_delay = sched[1].step_delay

\* C5: in every plan of a successful prepare_line or prepare_line_2d call
\* with at least one step per axis, each axis's step_delay is at least that
\* axis's pulse_delay.
C5_DelayAtLeastPulseDelay ==
    /\ call.op \in {"prepare_line", "prepare_line_2d"}
    /\ Succeeded
    /\ \A i \in 1..Len(call.sm) : WholeSteps(i) >= 1
    => \A i \in 1..Len(sched) :
           ~U32Less(sched[i].step_delay, U32(call.sm[i].pulse_delay))

\* C6: in prepare_line_2d the effective maximum is the smaller of the two
\* per-axis maxima: speed 0 resolves to it, and a speed above it is
\* rejected even when the faster axis alone would accept it.
C6_EffectiveMaxIsMin ==
    call.op = "prepare_line_2d" =>
        LET m1 == MaxSpd(call.sm[1])
            m2 == MaxSpd(call.sm[2])
            lo == IF U32Less(m1, m2) THEN m1 ELSE m2
        IN  /\ locals.max_spd = lo
            /\ ~U32Less(m1, lo) /\ ~U32Less(m2, lo)
            /\ call.spd = U32Zero => ~Rejected /\ locals.spd = lo
            /\ Exceeds(call.spd, lo) => Rejected /\ sched = <<>>

\* a speed the faster axis accepts and the slower one does not is rejected
C6_Witness ==
    /\ call.op = "prepare_line_2d"
    /\ Rejected
    /\ sched = <<>>
    /\ Exceeds(call.spd, MaxSpd(call.sm[1]))
    /\ ~Exceeds(call.spd, MaxSpd(call.sm[2]))

\* distance_per_step * 1000000 / pulse_delay on the integers, 4 limbs
ExactMax(sm) ==
    BigDivSmall(BigMulAdd(BigMulAdd(BigFromNat(sm.distance_per_step, 4), 1000, 0),
                          1000, 0),
                sm.pulse_delay)

\* C7: for distance_per_step in 1..100000 and pulse_delay in 1..10000 the
\* max_spd computed in 32-bit unsigned arithmetic is at most
\* floor(distance_per_step * 1000000 / pulse_delay) and less than 1000
\* below it; 7500 / 1000 gives 7500000.
C7_MaxSpdNearExact ==
    call.op = "prepare_line" =>
        LET sm == call.sm[1]
            m  == BigResize(locals.max_spd, 4)
        IN  /\ ~BigLess(ExactMax(sm), m)
            /\ BigLess(BigSub(ExactMax(sm), m), BigFromNat(1000, 4))
            /\ sm.distance_per_step = 7500 /\ sm.pulse_delay = 1000
                   => locals.max_spd = U32(7500000)

\* C8: for distance_per_step up to 100000 and pulse_delay in 1..10000
\* neither product of the max_spd computation wraps modulo 2^32: the
\* max_spd computed is (distance_per_step * 1000 / pulse_delay) * 1000 on
\* the integers.
C8_NoWrap ==
    call.op \in {"prepare_line", "prepare_line_2d"} =>
        \A i \in 1..Len(call.sm) :
            LET first  == BigMulAdd(BigFromNat(call.sm[i].distance_per_step, 3), 1000, 0)
                second == BigMulAdd(BigDivSmall(first, call.sm[i].pulse_delay), 1000, 0)
            IN  /\ first[3] = 0
                /\ second[3] = 0
                /\ BigResize(MaxSpd(call.sm[i]), 3) = second
                /\ Len(call.sm) = 1 => BigResize(locals.max_spd, 3) = second

\* C9: a successful prepare_line call (at a resolved speed above 0) hands
\* the scheduler (steps, step_delay) with steps = dl / distance_per_step
\* truncated toward zero,
\* dt = the integer part of dl * 1000000 / speed and step_delay =
\* dt / |steps| (the quotient of longs as the unsigned long handed over);
\* 1000/1000, dl = 10000, speed 1000 gives 10, 10000000 and 1000000.
C9_SingleAxisPlan ==
    /\ call.op = "prepare_line"
    /\ Succeeded
    /\ WholeSteps(1) >= 1
    /\ locals.spd # U32Zero
    =>  LET dl    == call.dl[1]
            steps == IF dl >= 0 THEN WholeSteps(1) ELSE -WholeSteps(1)
        IN  /\ Len(sched) = 1
            /\ sched[1].steps = steps
            /\ IsTransitTime(locals.dt, dl, locals.spd)
            /\ sched[1].step_delay = U32FromLong(LongDiv(locals.dt, WholeSteps(1)))
            /\ /\ call.sm[1].distance_per_step = 1000
               /\ call.sm[1].pulse_delay = 1000
               /\ dl = 10000
               /\ call.spd = U32(1000)
               => /\ sched[1].steps = 10
                  /\ locals.dt = 10000000
                  /\ sched[1].step_delay = U32(1000000)

\* C10: a successful prepare_line_2d call with at least one step on each
\* axis (at a resolved speed above 0) paces both axes over one dt, the
\* integer part of floor(sqrt(dl1^2 + dl2^2)) * 1000000 / speed: step_delay_i =
\* dt / mod_steps_i and dt - mod_steps_i < mod_steps_i * step_delay_i <= dt;
\* equal 1000/1000 axes with 3000, 4000 and speed 0 give dt = 5000 and the
\* plans (3, 1666) and (4, 1250).
C10_SharedTimeBudget ==
    /\ call.op = "prepare_line_2d"
    /\ Succeeded
    /\ WholeSteps(1) >= 1
    /\ WholeSteps(2) >= 1
    /\ locals.spd # U32Zero
    => LET sumsq == WideAdd(Square(LongAbs(call.dl[1])), Square(LongAbs(call.dl[2])))
       IN  /\ Len(sched) = 2
           /\ ~WideLess(sumsq, Square(locals.path))
           /\ WideLess(sumsq, Square(locals.path + 1))
           /\ locals.dt >= 0
           /\ IsTransitTime(locals.dt, locals.path, locals.spd)
           /\ \A i \in 1..2 :
                 /\ sched[i].step_delay = U32(locals.dt \div WholeSteps(i))
                 /\ WholeSteps(i) * (locals.dt \div WholeSteps(i)) <= locals.dt
                 /\ locals.dt - WholeSteps(i)
                        < WholeSteps(i) * (locals.dt \div WholeSteps(i))
           /\ /\ call.sm[1].distance_per_step = 1000 /\ call.sm[1].pulse_delay = 1000
              /\ call.sm[2].distance_per_step = 1000 /\ call.sm[2].pulse_delay = 1000
              /\ call.dl = <<3000, 4000>>
              /\ call.spd = U32Zero
              => /\ locals.dt = 5000
                 /\ sched[1].steps = 3 /\ sched[1].step_delay = U32(1666)
                 /\ sched[2].steps = 4 /\ sched[2].step_delay = U32(1250)

====
